---- MODULE Spec2Model ----
(***************************************************************************)
(* Model of the BFS crawl engine of mier48/web-scraper                     *)
(* (src/scraper/core.py, class WebScraper) together with the page analysis *)
(* it calls (src/scraper/analysis.py).                                     *)
(*                                                                         *)
(* A URL is a record [netloc, path]: netloc is the network location as a   *)
(* sequence of characters (so that lower-casing is computed), path is an   *)
(* opaque absolute path.  An href with the empty netloc is a relative      *)
(* reference.  The web is external: what a fetch returns is chosen when    *)
(* the fetch happens.                                                      *)
(***************************************************************************)
EXTENDS Integers, Sequences, FiniteSets, TLC

VARIABLES
    base_url,       \* self.base_url
    max_depth,      \* self.max_depth
    web,            \* the site crawled: the template of its pages, its answer to the
                    \* auxiliary request, and the order list(set) gives its labels
    visited_urls,   \* self.visited_urls : set of URLs
    data,           \* self.data : insertion-ordered dict, a sequence of [key, value]
    queue,          \* local deque of scrape(): sequence of [url, depth]
    cur,            \* locals (url, depth) of scrape(): <<>> while unbound, else <<entry>>
    resp,           \* local r of scrape_page: <<>> while unbound, else <<status code>>
    ret,            \* locals (page_data, links) of scrape(): result of scrape_page
    pc,             \* position of the control thread inside scrape()
    fetchLog,       \* history: the calls of scrape_page, in order
    firstDisc,      \* history: the URLs put on the frontier so far, each with the depth
                    \* of its first entry
    probeLog,       \* history: the auxiliary requests of try_404_detection, in order
    graph,          \* history, kept by CoverSpec only: the links of each parsed page
                    \* that lead to the base network location
    disk,           \* the output file of save_to_json and the error it logged
    again           \* history: the number of calls of scrape() after the first

vars == <<base_url, max_depth, web, visited_urls, data, queue, cur, resp, ret, pc, fetchLog,
          firstDisc, probeLog, graph, disk, again>>

----------------------------------------------------------------------------
(* Bounds of the model *)

MaxDepthArg == 2    \* max_depth ranges over -1 .. MaxDepthArg
MaxPath == 1        \* paths are 0 .. MaxPath
MaxAnchors == 2     \* a page holds at most MaxAnchors distinct hrefs
MaxH1 == 3          \* a document has at most MaxH1 h1 elements
MaxMetas == 2       \* and at most MaxMetas meta elements
MaxPriceLen == 2    \* a price text has at most MaxPriceLen characters
MaxAgain == 1       \* scrape() is called again at most MaxAgain times
MaxSiteDepth == 1   \* crawls deeper than this are explored on the marker-free site only

----------------------------------------------------------------------------
(* URLs *)

Paths == 0..MaxPath

\* Network locations that occur on the modelled web.
Netlocs == { <<"S">>, <<"s">>, <<"s", ":", "8">> }

Urls == [netloc : Netlocs, path : Paths]

\* hrefs found in anchors: absolute URLs and relative references (empty netloc)
Hrefs == Urls \cup [netloc : {<<>>}, path : Paths]

BaseUrls == { [netloc |-> <<"S">>, path |-> 0] }

\* str.lower() on one character
LowerChar(c) ==
    CASE c = "S" -> "s"
      [] c = "D" -> "d"
      [] OTHER -> c

\* str.lower()
Lower(s) == [i \in DOMAIN s |-> LowerChar(s[i])]

\* urlparse(url).netloc
Netloc(u) == u.netloc

\* urljoin(url, href): a relative reference takes the page's network location
urljoin(u, h) ==
    IF h.netloc = <<>> THEN [netloc |-> u.netloc, path |-> h.path] ELSE h

\* the host of a network location: what precedes the port separator
RECURSIVE Host(_)
Host(n) == IF n = <<>> \/ Head(n) = ":" THEN <<>> ELSE <<Head(n)>> \o Host(Tail(n))

\* is_same_domain comparing hosts only, the port ignored
is_same_domain_host_only(u) == Lower(Host(Netloc(base_url))) = Lower(Host(Netloc(u)))

\* WebScraper.is_same_domain
is_same_domain(u) == Lower(Netloc(base_url)) = Lower(Netloc(u))

----------------------------------------------------------------------------
(* Containers *)

\* deque.pop(): the entry is taken from the right end
popright(q) == [item |-> q[Len(q)], rest |-> SubSeq(q, 1, Len(q) - 1)]

\* the front entry is read but not removed
peekleft(q) == [item |-> Head(q), rest |-> q]

\* deque.popleft(): the entry removed and the deque left behind
popleft(q) == [item |-> Head(q), rest |-> Tail(q)]

Keys(d) == { d[i].key : i \in DOMAIN d }

\* a store that puts the new entry in front
DictSetFront(d, k, v) == <<[key |-> k, value |-> v]>> \o d

\* dict.__setitem__: a present key keeps its position, a new key is appended
DictSet(d, k, v) ==
    IF k \in Keys(d)
    THEN [i \in DOMAIN d |-> IF d[i].key = k THEN [key |-> k, value |-> v] ELSE d[i]]
    ELSE Append(d, [key |-> k, value |-> v])

\* dict.get(k): <<>> is None
DictGet(d, k) ==
    IF k \in Keys(d) THEN <<(CHOOSE e \in { d[i] : i \in DOMAIN d } : e.key = k).value>>
    ELSE <<>>

\* list(set): every order of the elements is possible
Orders(S) ==
    { s \in [1..Cardinality(S) -> S] : \A i, j \in 1..Cardinality(S) : i # j => s[i] # s[j] }

----------------------------------------------------------------------------
(* Strings, as sequences of characters *)

RECURSIVE LStrip(_)
LStrip(s) == IF s # <<>> /\ Head(s) = " " THEN LStrip(Tail(s)) ELSE s

RECURSIVE RStrip(_)
RStrip(s) ==
    IF s # <<>> /\ s[Len(s)] = " " THEN RStrip(SubSeq(s, 1, Len(s) - 1)) ELSE s

\* str.strip()
Strip(s) == RStrip(LStrip(s))

RECURSIVE RemoveAll(_, _)
\* str.replace(old, ""): every occurrence of old, found from left to right, is cut out
RemoveAll(s, old) ==
    IF old = <<>> \/ Len(s) < Len(old) THEN s
    ELSE IF SubSeq(s, 1, Len(old)) = old
         THEN RemoveAll(SubSeq(s, Len(old) + 1, Len(s)), old)
         ELSE <<Head(s)>> \o RemoveAll(Tail(s), old)

RECURSIVE GetTextStripped(_)
\* get_text(strip=True): the text nodes, each stripped, joined without separator
GetTextStripped(nodes) ==
    IF nodes = <<>> THEN <<>> ELSE Strip(Head(nodes)) \o GetTextStripped(Tail(nodes))

\* the key "description" of meta_tags
Description == <<"d", "e", "s", "c", "r", "i", "p", "t", "i", "o", "n">>

\* the fallback name and the fallback price of a product (the accented i of the
\* name is written i)
SinTitulo == <<"S", "i", "n", " ", "t", "i", "t", "u", "l", "o">>
SinPrecio == <<"S", "i", "n", " ", "p", "r", "e", "c", "i", "o">>

----------------------------------------------------------------------------
(* analysis.py: heading and metadata checks *)

\* check_h1_issues: (missing_h1, multiple_h1)
check_h1_issues(page_data) ==
    [missing_h1 |-> Len(page_data.headings.h1) = 0,
     multiple_h1 |-> Len(page_data.headings.h1)]

\* is_meta_description_missing: the key is absent or its value is empty
is_meta_description_missing(page_data) ==
    LET got == DictGet(page_data.meta_tags, Description)
    IN got = <<>> \/ got[1] = ""

----------------------------------------------------------------------------
(* analysis.py: CMS / platform fingerprinting *)

\* <meta name="generator">: substring of the lower-cased content -> label
GeneratorTable ==
    { <<"wordpress", "WordPress">>, <<"shopify", "Shopify">>, <<"joomla", "Joomla">>,
      <<"drupal", "Drupal">>, <<"prestashop", "PrestaShop">>,
      <<"squarespace", "Squarespace">>, <<"wix.com", "Wix">> }

\* substring of html_str -> label
HtmlTable ==
    { <<"wp-content", "WordPress">>, <<"wp-includes", "WordPress">>,
      <<"woocommerce", "WooCommerce (WP)">>, <<"elementor", "WordPress + Elementor">>,
      <<"cdn.shopify.com", "Shopify">>, <<"powered by shopify", "Shopify">>,
      <<"powered by joomla", "Joomla">>, <<"index.php?option=com_", "Joomla">>,
      <<"sites/default/files", "Drupal">>, <<"powered by drupal", "Drupal">>,
      <<"powered by prestashop", "PrestaShop">>, <<"modules/prestashop", "PrestaShop">>,
      <<"static1.squarespace.com", "Squarespace">>, <<"powered by squarespace", "Squarespace">>,
      <<"wix-code", "Wix">>, <<"powered by wix", "Wix">>,
      <<"powered by weebly", "Weebly">>, <<"weebly.com", "Weebly">> }

\* extension matched by pattern_ext -> label
ExtTable ==
    { <<".php", "PHP">>, <<".jsp", "Java/JSP">>, <<".rb", "Ruby">>, <<".py", "Python">>,
      <<".asp", ".NET (ASP)">>, <<".aspx", ".NET (ASP)">> }

\* frameworks_map
FrameworksTable ==
    { <<"rails", "Ruby on Rails">>, <<"sinatra", "Ruby (Sinatra)">>,
      <<"django", "Python (Django)">>, <<"flask", "Python (Flask)">>,
      <<"pylons", "Python (Pylons)">>, <<"web2py", "Python (web2py)">>,
      <<"laravel", "PHP (Laravel)">>, <<"symfony", "PHP (Symfony)">>,
      <<"codeigniter", "PHP (CodeIgniter)">>, <<"cakephp", "PHP (CakePHP)">>,
      <<"phalcon", "PHP (Phalcon)">>, <<"fuelphp", "PHP (FuelPHP)">> }

\* the labels of the table rows whose marker occurs
Labels(table, found) == { t[2] : t \in { r \in table : r[1] \in found } }

\* html_str = soup.prettify().lower(), as the set of searched substrings it contains;
\* the Joomla marker "index.php?option=com_" itself matches pattern_ext
HtmlStr(page) ==
    page.html \cup (IF "index.php?option=com_" \in page.html THEN {".php"} ELSE {})

\* The answer to the auxiliary request of try_404_detection:
\* the request raised, or a response with a status and a body
ProbeAnswers ==
    { [raised |-> TRUE, status |-> 0, rails_page |-> FALSE],
      [raised |-> FALSE, status |-> 404, rails_page |-> TRUE],
      [raised |-> FALSE, status |-> 404, rails_page |-> FALSE],
      [raised |-> FALSE, status |-> 200, rails_page |-> TRUE] }

\* try_404_detection that does not look at the status code
try_404_any_status(answer) ==
    IF ~answer.raised /\ answer.rails_page THEN <<"Ruby on Rails">> ELSE <<>>

\* try_404_detection: <<>> is None
try_404_detection(answer) ==
    IF ~answer.raised /\ answer.status = 404 /\ answer.rails_page
    THEN <<"Ruby on Rails">> ELSE <<>>

\* the labels found in the page itself (sections A, B, C of detect_cms_platform)
PagePlatforms(page) ==
    Labels(GeneratorTable, page.generator)
        \cup Labels(HtmlTable, HtmlStr(page))
        \cup Labels(ExtTable, HtmlStr(page))
        \cup Labels(FrameworksTable, HtmlStr(page))

\* an auxiliary request for every page
ProbeAlways(page) == TRUE

\* section D: is the auxiliary request issued?  (base_url is a non-empty string)
ProbeIssued(page) == "Ruby on Rails" \notin PagePlatforms(page) \/ PagePlatforms(page) = {}

\* cms_platforms at section E
CmsPlatforms(page, answer) ==
    PagePlatforms(page) \cup
        (IF ProbeIssued(page) /\ try_404_detection(answer) # <<>>
         THEN {try_404_detection(answer)[1]} ELSE {})

\* return list(cms_platforms), without the sentinel
CmsResultNoSentinel(platforms, order) == order

\* return list(cms_platforms) if cms_platforms else ["Unknown"]
CmsResult(platforms, order) == IF platforms # {} THEN order ELSE <<"Unknown">>

\* the h1 keys of a report that counts one h1 as several
H1KeysFromOne(h1) ==
    (IF h1.missing_h1 THEN {"missing_h1"} ELSE {})
        \cup (IF h1.multiple_h1 >= 1 THEN {"multiple_h1"} ELSE {})

\* the keys analyze_page puts in the report for the h1 checks
H1Keys(h1) ==
    (IF h1.missing_h1 THEN {"missing_h1"} ELSE {})
        \cup (IF h1.multiple_h1 > 1 THEN {"multiple_h1"} ELSE {})

\* analyze_page: the report, a function from the keys present to their values
\* (repeated_ids and mismatched_links read nothing that is modelled and are left out)
analyze_page(page, page_data, answer, order) ==
    LET h1 == check_h1_issues(page_data)
        keys == H1Keys(h1)
                  \cup (IF is_meta_description_missing(page_data)
                        THEN {"missing_meta_description"} ELSE {})
                  \cup {"cms_platform"}
    IN [k \in keys |->
            CASE k = "missing_h1" -> TRUE
              [] k = "multiple_h1" -> h1.multiple_h1
              [] k = "missing_meta_description" -> TRUE
              [] OTHER -> CmsResult(CmsPlatforms(page, answer), order)]

----------------------------------------------------------------------------
(* scrape_page *)

\* A document without headings, meta elements and product cards: html and generator
\* are the markers fingerprinting sees, h1 the texts of the h1 elements, metas the
\* meta elements other than the generator, cardsA the cards of the "productos"
\* sections and cardsB the product-grid cards, all in document order
Template(html, generator) ==
    [html |-> html, generator |-> generator, h1 |-> <<>>, metas |-> <<>>,
     cardsA |-> <<>>, cardsB |-> <<>>]

\* The templates of the sites of the crawl
Docs ==
    { Template({}, {}),
      Template({"rails"}, {}),
      Template({"wp-content"}, {"wordpress"}) }

AnchorSets == { X \in SUBSET Hrefs : Cardinality(X) <= MaxAnchors }

\* The rendered documents of a site: the distinct hrefs of the anchors, and the
\* markers of the site's template
Pages(doc) == { [k \in DOMAIN doc \cup {"anchors"} |->
                     IF k = "anchors" THEN A ELSE doc[k]] : A \in AnchorSets }

\* The sites: template, answer to the auxiliary request, order of the label list
Sites ==
    { [doc |-> d, answer |-> a, cms_order |-> o] :
        d \in Docs, a \in ProbeAnswers, o \in UNION { Orders(CmsPlatforms(x, y)) : x \in Docs, y \in ProbeAnswers } }

\* the marker-free site whose auxiliary request raises
PlainSite ==
    [doc |-> Template({}, {}),
     answer |-> [raised |-> TRUE, status |-> 0, rails_page |-> FALSE],
     cms_order |-> <<>>]

Statuses == {200, 404}

\* the key a meta element is stored under
MetaKey(meta) == IF meta.name # <<>> THEN Lower(meta.name) ELSE Lower(meta.property)

RECURSIVE MetaTagsFirstWins(_, _)
\* a loop over the meta elements that keeps the value of the first element of a key
MetaTagsFirstWins(metas, d) ==
    IF metas = <<>> THEN d
    ELSE LET meta == Head(metas)
         IN MetaTagsFirstWins(Tail(metas),
                IF (meta.name # <<>> \/ meta.property # <<>>) /\ MetaKey(meta) \notin Keys(d)
                THEN DictSet(d, MetaKey(meta), meta.content)
                ELSE d)

RECURSIVE MetaTags(_, _)
\* the loop over the meta elements: the name is the key if there is one, else the
\* property; a later element with the same lowered key replaces the value
MetaTags(metas, d) ==
    IF metas = <<>> THEN d
    ELSE LET meta == Head(metas)
         IN MetaTags(Tail(metas),
                IF meta.name # <<>> THEN DictSet(d, Lower(meta.name), meta.content)
                ELSE IF meta.property # <<>>
                     THEN DictSet(d, Lower(meta.property), meta.content)
                     ELSE d)

\* get_text(strip=True) of an optional element, with a fallback if it is absent
TextOr(el, fallback) == IF el # <<>> THEN Strip(el[1]) ELSE fallback

\* the record of a card of a "productos" section
ProductA(item, u) ==
    LET link_block == item.link_block[1]
    IN [name |-> TextOr(link_block.title, SinTitulo),
        url |-> urljoin(u, link_block.href),
        price |-> TextOr(link_block.price, SinPrecio),
        image_src |-> IF link_block.img # <<>>
                      THEN <<urljoin(u, link_block.img[1].src)>> ELSE <<>>,
        image_alt |-> IF link_block.img # <<>> THEN link_block.img[1].alt ELSE ""]

RECURSIVE ProductsA(_, _)
\* the cards of the "productos" sections; a card without link block is passed over
ProductsA(items, u) ==
    IF items = <<>> THEN <<>>
    ELSE (IF Head(items).link_block # <<>> THEN <<ProductA(Head(items), u)>> ELSE <<>>)
            \o ProductsA(Tail(items), u)

\* name of a product-grid card: the aria-label of the main link, else the text of
\* the title link, else the fallback
NameB(card) ==
    LET label == IF card.link # <<>> THEN Strip(card.link[1].aria_label) ELSE <<>>
        title == IF label = <<>> /\ card.title # <<>> THEN Strip(card.title[1]) ELSE label
    IN IF title = <<>> THEN SinTitulo ELSE title

\* (current_price, old_price) of a product-grid card; the price link holds a text
\* node and, optionally, a struck-through element after it
PriceB(card) ==
    IF card.price_link = <<>> THEN [price |-> SinPrecio, old_price |-> <<>>]
    ELSE LET text_all == GetTextStripped(<<card.price_link[1].text>>
                                            \o card.price_link[1].sale)
         IN IF card.price_link[1].sale # <<>>
            THEN LET old_price_text == Strip(card.price_link[1].sale[1])
                 IN [price |-> Strip(RemoveAll(text_all, old_price_text)),
                     old_price |-> old_price_text]
            ELSE [price |-> text_all, old_price |-> <<>>]

\* the record of a product-grid card (the image is the url of the style attribute;
\* the data-bgset fallback is left out)
ProductB(card, u) ==
    [name |-> NameB(card),
     url |-> IF card.link # <<>> THEN urljoin(u, card.link[1].href) ELSE u,
     price |-> PriceB(card).price,
     old_price |-> PriceB(card).old_price,
     image_src |-> IF card.image # <<>> THEN <<urljoin(u, card.image[1])>> ELSE <<>>,
     image_alt |-> ""]

RECURSIVE ProductsB(_, _)
ProductsB(cards, u) ==
    IF cards = <<>> THEN <<>>
    ELSE <<ProductB(Head(cards), u)>> \o ProductsB(Tail(cards), u)

\* extract_products: the cards of the first grammar, then those of the second
extract_products(page, u) == ProductsA(page.cardsA, u) \o ProductsB(page.cardsB, u)

\* page_data of a parsed page (extract_content), before the analysis is attached;
\* title, text, images, emails and sections are read by nothing and are left out,
\* and of the headings only h1 is kept
extract_content(page, u) ==
    [url |-> u,
     meta_tags |-> MetaTags(page.metas, <<>>),
     headings |-> [h1 |-> page.h1],
     products |-> extract_products(page, u)]

\* if analysis: page_data["analysis"] = analysis
AttachAnalysis(page_data, analysis) ==
    IF DOMAIN analysis # {}
    THEN [k \in DOMAIN page_data \cup {"analysis"} |->
            IF k = "analysis" THEN analysis ELSE page_data[k]]
    ELSE page_data

\* The links of a page: the set of resolved hrefs
PageLinks(page, u) == { urljoin(u, h) : h \in page.anchors }

\* an except branch returning a placeholder record
ScrapeFailedPlaceholder == [page_data |-> <<[error |-> TRUE]>>, links |-> <<>>]

\* the return value of the except branch: (None, [])
ScrapeFailed == [page_data |-> <<>>, links |-> <<>>]

\* the return value of the try branch: (page_data, list(links))
ScrapeOk(page_data, links) == [page_data |-> <<page_data>>, links |-> links]

\* if page_data: self.data[url] = page_data   (a dict with keys is truthy)
Store(d, u, r) == IF r.page_data # <<>> THEN DictSet(d, u, r.page_data[1]) ELSE d

----------------------------------------------------------------------------
(* scrape *)

\* the ceiling taken one level too early
DepthExceededAtCeiling(d) == d >= max_depth

\* the ceiling taken one level too deep
DepthExceededOffByOne(d) == d > max_depth + 1

\* depth > self.max_depth
DepthExceeded(d) == d > max_depth

\* no visited check at all
NotVisitedAlways(u) == TRUE

\* url not in self.visited_urls
NotVisited(u) == u \notin visited_urls

\* an admission test that does not look at the visited set
AdmitSameDomain(u) == is_same_domain(u)

\* link_url not in self.visited_urls and self.is_same_domain(link_url)
Admit(u) == u \notin visited_urls /\ is_same_domain(u)

RECURSIVE AdmittedTwoDeeper(_, _)
\* a for loop that appends the links two levels below the page
AdmittedTwoDeeper(links, d) ==
    IF links = <<>> THEN <<>>
    ELSE (IF Admit(Head(links)) THEN <<[url |-> Head(links), depth |-> d + 2]>> ELSE <<>>)
         \o AdmittedTwoDeeper(Tail(links), d)

RECURSIVE Admitted(_, _)
\* the entries the for loop appends for the links, in order
Admitted(links, d) ==
    IF links = <<>> THEN <<>>
    ELSE (IF Admit(Head(links)) THEN <<[url |-> Head(links), depth |-> d + 1]>> ELSE <<>>)
         \o Admitted(Tail(links), d)

RECURSIVE NoteFirst(_, _)
\* history: record the depth of the first enqueue of each URL
NoteFirst(fd, entries) ==
    IF entries = <<>> THEN fd
    ELSE LET e == Head(entries)
             fd2 == IF e.url \in DOMAIN fd THEN fd
                    ELSE [u \in DOMAIN fd \cup {e.url} |->
                            IF u \in DOMAIN fd THEN fd[u] ELSE e.depth]
         IN NoteFirst(fd2, Tail(entries))

\* history: one call of scrape_page
Call(ok) == [url |-> cur[1].url, depth |-> cur[1].depth, ok |-> ok]

\* an auxiliary request made while the page u was analysed, and its answer
Probe(u, answer) == [url |-> u, answer |-> answer]

\* the links of the page u that scrape() may put on the frontier, noted in g
Edges(g, u, links) ==
    [v \in DOMAIN g \cup {u} |->
        IF v = u THEN { l \in links : is_same_domain(l) } ELSE g[v]]

\* no output file yet, and no error logged
NoFile == [file |-> <<>>, error |-> FALSE]

Init ==
    /\ base_url \in BaseUrls
    /\ max_depth \in -1..MaxDepthArg
    /\ web \in { w \in Sites : w.cms_order \in Orders(CmsPlatforms(w.doc, w.answer)) }
    /\ max_depth > MaxSiteDepth => web = PlainSite
    /\ visited_urls = {}
    /\ data = <<>>
    /\ queue = <<>>
    /\ cur = <<>>
    /\ resp = <<>>
    /\ ret = ScrapeFailed
    /\ pc = "init"
    /\ fetchLog = <<>>
    /\ firstDisc = [u \in {} |-> 0]
    /\ probeLog = <<>>
    /\ graph = [u \in {} |-> {}]
    /\ disk = NoFile
    /\ again = 0

\* queue = deque([(self.base_url, 0)])
ScrapeStart ==
    /\ pc = "init"
    /\ queue' = <<[url |-> base_url, depth |-> 0]>>
    /\ firstDisc' = NoteFirst(firstDisc, queue')
    /\ pc' = "loop"
    /\ UNCHANGED <<probeLog, graph, disk, again>>
    /\ UNCHANGED <<base_url, max_depth, web, visited_urls, data, cur, resp, ret, fetchLog>>

\* while queue: is false; pbar.close()
LoopExit ==
    /\ pc = "loop"
    /\ queue = <<>>
    /\ pc' = "done"
    /\ UNCHANGED <<probeLog, graph, disk, again>>
    /\ UNCHANGED <<base_url, max_depth, web, visited_urls, data, queue, cur, resp, ret,
                   fetchLog, firstDisc>>

\* popleft; an over-depth entry is skipped and the loop goes on
DepthSkip ==
    /\ pc = "loop"
    /\ queue # <<>>
    /\ LET p == popleft(queue) IN
        /\ DepthExceeded(p.item.depth)
        /\ queue' = p.rest
        /\ cur' = <<p.item>>
    /\ pc' = "loop"
    /\ UNCHANGED <<probeLog, graph, disk, again>>
    /\ UNCHANGED <<base_url, max_depth, web, visited_urls, data, resp, ret, fetchLog, firstDisc>>

\* popleft; if depth > self.max_depth: break; pbar.close()
DepthStop ==
    /\ pc = "loop"
    /\ queue # <<>>
    /\ LET p == popleft(queue) IN
        /\ DepthExceeded(p.item.depth)
        /\ queue' = p.rest
        /\ cur' = <<p.item>>
    /\ pc' = "done"
    /\ UNCHANGED <<probeLog, graph, disk, again>>
    /\ UNCHANGED <<base_url, max_depth, web, visited_urls, data, resp, ret, fetchLog, firstDisc>>

\* popleft; the url is already visited: nothing but pbar.update(1)
SkipVisited ==
    /\ pc = "loop"
    /\ queue # <<>>
    /\ LET p == popleft(queue) IN
        /\ ~DepthExceeded(p.item.depth)
        /\ ~NotVisited(p.item.url)
        /\ queue' = p.rest
        /\ cur' = <<p.item>>
    /\ pc' = "loop"
    /\ UNCHANGED <<probeLog, graph, disk, again>>
    /\ UNCHANGED <<base_url, max_depth, web, visited_urls, data, resp, ret, fetchLog, firstDisc>>

\* popleft; self.visited_urls.add(url); scrape_page is entered
MarkVisited ==
    /\ pc = "loop"
    /\ queue # <<>>
    /\ LET p == popleft(queue) IN
        /\ ~DepthExceeded(p.item.depth)
        /\ NotVisited(p.item.url)
        /\ queue' = p.rest
        /\ cur' = <<p.item>>
        /\ visited_urls' = visited_urls \cup {p.item.url}
    /\ pc' = "get"
    /\ UNCHANGED <<probeLog, graph, disk, again>>
    /\ UNCHANGED <<base_url, max_depth, web, data, resp, ret, fetchLog, firstDisc>>

\* self.session.get raises (network failure, timeout): except branch
GetFails ==
    /\ pc = "get"
    /\ ret' = ScrapeFailed
    /\ data' = Store(data, cur[1].url, ret')
    /\ fetchLog' = Append(fetchLog, Call(FALSE))
    /\ pc' = "expand"
    /\ UNCHANGED <<probeLog, graph, disk, again>>
    /\ UNCHANGED <<base_url, max_depth, web, visited_urls, queue, cur, resp, firstDisc>>

\* self.session.get returns a response; its status code is not looked at
GetReturns ==
    /\ pc = "get"
    /\ \E st \in Statuses : resp' = <<st>>
    /\ pc' = "parse"
    /\ UNCHANGED <<probeLog, graph, disk, again>>
    /\ UNCHANGED <<base_url, max_depth, web, visited_urls, data, queue, cur, ret, fetchLog,
                   firstDisc>>

\* render, BeautifulSoup, extract_content or analyze_page raises: except branch
ParseFails ==
    /\ pc = "parse"
    /\ ret' = ScrapeFailed
    /\ data' = Store(data, cur[1].url, ret')
    /\ resp' = <<>>
    /\ fetchLog' = Append(fetchLog, Call(FALSE))
    /\ pc' = "expand"
    /\ UNCHANGED <<probeLog, graph, disk, again>>
    /\ UNCHANGED <<base_url, max_depth, web, visited_urls, queue, cur, firstDisc>>

\* render .. return page_data, list(links); if page_data: self.data[url] = page_data,
\* for the document page and the order links of its links
Parse(page, links) ==
    /\ ret' = ScrapeOk(AttachAnalysis(extract_content(page, cur[1].url),
                          analyze_page(page, extract_content(page, cur[1].url),
                                       web.answer, web.cms_order)),
                       links)
    /\ probeLog' = IF ProbeIssued(page)
                   THEN Append(probeLog, Probe(cur[1].url, web.answer))
                   ELSE probeLog
    /\ data' = Store(data, cur[1].url, ret')
    /\ resp' = <<>>
    /\ fetchLog' = Append(fetchLog, Call(TRUE))
    /\ pc' = "expand"
    /\ UNCHANGED <<disk, again>>
    /\ UNCHANGED <<base_url, max_depth, web, visited_urls, queue, cur, firstDisc>>

\* scrape_page returns a parsed page
ParseReturns ==
    /\ pc = "parse"
    /\ \E page \in Pages(web.doc) :
        \E links \in Orders(PageLinks(page, cur[1].url)) :
            Parse(page, links) /\ UNCHANGED graph

\* scrape_page returns a parsed page, and the page's links are noted in graph
ParseReturnsNoted ==
    /\ pc = "parse"
    /\ \E page \in Pages(web.doc) :
        \E links \in Orders(PageLinks(page, cur[1].url)) :
            Parse(page, links) /\ graph' = Edges(graph, cur[1].url, PageLinks(page, cur[1].url))

\* for link_url in links: ... queue.append((link_url, depth + 1)); pbar.update(1)
Expand ==
    /\ pc = "expand"
    /\ LET new == Admitted(ret.links, cur[1].depth) IN
        /\ queue' = queue \o new
        /\ firstDisc' = NoteFirst(firstDisc, new)
    /\ pc' = "loop"
    /\ UNCHANGED <<probeLog, graph, disk, again>>
    /\ UNCHANGED <<base_url, max_depth, web, visited_urls, data, cur, resp, ret, fetchLog>>

Next ==
    \/ ScrapeStart
    \/ LoopExit
    \/ DepthStop
    \/ SkipVisited
    \/ MarkVisited
    \/ GetFails
    \/ GetReturns
    \/ ParseFails
    \/ ParseReturns
    \/ Expand

Spec == Init /\ [][Next]_vars

\* construction, crawling the marker-free site
InitPlain == Init /\ web = PlainSite

\* the control thread runs whenever it can: scrape() is one synchronous call
FairSpec == InitPlain /\ [][Next]_vars /\ WF_vars(Next)

----------------------------------------------------------------------------
(* save_to_json, called by the invoker when scrape() has returned *)

\* os.makedirs raises: the exception leaves save_to_json
SaveMkdirFails ==
    /\ pc = "done"
    /\ pc' = "raised"
    /\ UNCHANGED <<probeLog, graph, disk, again>>
    /\ UNCHANGED <<base_url, max_depth, web, visited_urls, data, queue, cur, resp, ret,
                   fetchLog, firstDisc>>

\* open and json.dump succeed: the file holds self.data, and the call returns
SaveWrites ==
    /\ pc = "done"
    /\ disk' = [file |-> <<data>>, error |-> FALSE]
    /\ pc' = "returned"
    /\ UNCHANGED <<probeLog, graph, again>>
    /\ UNCHANGED <<base_url, max_depth, web, visited_urls, data, queue, cur, resp, ret,
                   fetchLog, firstDisc>>

\* open or json.dump raises OSError: the handler logs the error, and the call returns
SaveWriteFails ==
    /\ pc = "done"
    /\ disk' = [file |-> <<>>, error |-> TRUE]
    /\ pc' = "returned"
    /\ UNCHANGED <<probeLog, graph, again>>
    /\ UNCHANGED <<base_url, max_depth, web, visited_urls, data, queue, cur, resp, ret,
                   fetchLog, firstDisc>>

NextSave ==
    \/ Next
    \/ SaveMkdirFails
    \/ SaveWrites
    \/ SaveWriteFails

\* a crawl of the marker-free site, followed by save_to_json
SaveSpec == InitPlain /\ [][NextSave]_vars

----------------------------------------------------------------------------
(* scrape(), called again on the same instance when it has returned *)

\* a further call that starts from an empty visited set
ScrapeAgainFresh ==
    /\ pc = "done"
    /\ again < MaxAgain
    /\ again' = again + 1
    /\ visited_urls' = {}
    /\ queue' = <<[url |-> base_url, depth |-> 0]>>
    /\ firstDisc' = NoteFirst(firstDisc, queue')
    /\ cur' = <<>>
    /\ resp' = <<>>
    /\ ret' = ScrapeFailed
    /\ pc' = "loop"
    /\ UNCHANGED <<probeLog, graph, disk>>
    /\ UNCHANGED <<base_url, max_depth, web, data, fetchLog>>

\* queue = deque([(self.base_url, 0)]) in a new frame: the locals of the call before
\* are gone, self.visited_urls and self.data are as that call left them
ScrapeAgain ==
    /\ pc = "done"
    /\ again < MaxAgain
    /\ again' = again + 1
    /\ queue' = <<[url |-> base_url, depth |-> 0]>>
    /\ firstDisc' = NoteFirst(firstDisc, queue')
    /\ cur' = <<>>
    /\ resp' = <<>>
    /\ ret' = ScrapeFailed
    /\ pc' = "loop"
    /\ UNCHANGED <<probeLog, graph, disk>>
    /\ UNCHANGED <<base_url, max_depth, web, visited_urls, data, fetchLog>>

NextAgain ==
    \/ Next
    \/ ScrapeAgain

\* crawls of the marker-free site by one instance
AgainSpec == InitPlain /\ [][NextAgain]_vars

----------------------------------------------------------------------------
(* The crawl with the links of its pages noted *)

NextCover ==
    \/ ScrapeStart
    \/ LoopExit
    \/ DepthStop
    \/ SkipVisited
    \/ MarkVisited
    \/ GetFails
    \/ GetReturns
    \/ ParseFails
    \/ ParseReturnsNoted
    \/ Expand

CoverSpec == InitPlain /\ [][NextCover]_vars

----------------------------------------------------------------------------
(* The crawl that skips an over-depth entry and keeps looping, beside the real one *)

\* popleft; the depth is over the ceiling; continue in place of break
DepthContinue ==
    /\ pc = "loop"
    /\ queue # <<>>
    /\ LET p == popleft(queue) IN
        /\ DepthExceeded(p.item.depth)
        /\ queue' = p.rest
        /\ cur' = <<p.item>>
    /\ pc' = "loop"
    /\ UNCHANGED <<probeLog, graph, disk, again>>
    /\ UNCHANGED <<base_url, max_depth, web, visited_urls, data, resp, ret, fetchLog, firstDisc>>

\* at an over-depth entry the crawl halts, as scrape() does, or skips it
NextSkip ==
    \/ Next
    \/ DepthContinue

SkipSpec == InitPlain /\ [][NextSkip]_vars

----------------------------------------------------------------------------
(* The crawl of one page, over documents with headings, meta elements and cards *)

SeqsUpTo(S, n) == UNION { [1..k -> S] : k \in 0..n }

\* documents with 0 .. MaxH1 h1 elements
H1Docs ==
    { [Template({}, {}) EXCEPT !.h1 = [i \in 1..n |-> "t"]] : n \in 0..MaxH1 }

\* a meta element: its name and property attributes (<<>> if absent), its content
\* attribute ("" if absent)
MetaElems ==
    [name : {<<>>, <<"D", "e", "s", "c", "r", "i", "p", "t", "i", "o", "n">>},
     property : {<<>>, Description},
     content : {"", "Hi", "Bye"}]

MetaDocs ==
    { [Template({}, {}) EXCEPT !.metas = m] : m \in SeqsUpTo(MetaElems, MaxMetas) }

\* the href of the cards: a relative reference
CardHref == [netloc |-> <<>>, path |-> MaxPath]

\* the cards of a "productos" section
CardsA ==
    { [link_block |-> <<>>] }
        \cup { [link_block |-> <<[href |-> CardHref, title |-> t, price |-> p, img |-> i]>>] :
                 t \in {<<>>, <<<<"n">>>>}, p \in {<<>>, <<<<"3">>>>},
                 i \in {<<>>, <<[src |-> CardHref, alt |-> "a"]>>} }

PriceStrings == SeqsUpTo({"3", "4", " "}, MaxPriceLen)

\* product-grid cards that differ in the price link
PriceCardsB ==
    { [link |-> <<[href |-> CardHref, aria_label |-> <<"n">>]>>, title |-> <<>>,
       price_link |-> p, image |-> <<>>] :
        p \in {<<>>} \cup { <<[text |-> t, sale |-> s]>> :
                               t \in PriceStrings,
                               s \in {<<>>} \cup { <<x>> : x \in PriceStrings } } }

\* product-grid cards that differ in the main link, the title link and the image
NameCardsB ==
    { [link |-> l, title |-> t, price_link |-> <<>>, image |-> i] :
        l \in {<<>>} \cup { <<[href |-> CardHref, aria_label |-> a]>> :
                               a \in {<<>>, <<" ">>, <<"n">>} },
        t \in {<<>>, <<<<" ">>>>, <<<<"m">>>>},
        i \in {<<>>, <<CardHref>>} }

\* documents with at most one card of each grammar
ProductDocs ==
    { [Template({}, {}) EXCEPT !.cardsA = a] : a \in SeqsUpTo(CardsA, 1) }
        \cup { [Template({}, {}) EXCEPT !.cardsB = <<b>>] : b \in PriceCardsB \cup NameCardsB }
        \cup { [Template({}, {}) EXCEPT !.cardsA = <<a>>, !.cardsB = <<b>>] :
                 a \in CardsA, b \in NameCardsB }

PageDocs == H1Docs \cup MetaDocs \cup ProductDocs

\* construction, for a crawl of the base page of a marker-free site whose auxiliary
\* request raises; its links are followed for the document of PlainSite only
InitPage ==
    /\ base_url \in BaseUrls
    /\ max_depth \in 0..MaxDepthArg
    /\ web \in { [doc |-> d, answer |-> PlainSite.answer, cms_order |-> <<>>] :
                  d \in PageDocs }
    /\ max_depth > 0 => web = PlainSite
    /\ visited_urls = {}
    /\ data = <<>>
    /\ queue = <<>>
    /\ cur = <<>>
    /\ resp = <<>>
    /\ ret = ScrapeFailed
    /\ pc = "init"
    /\ fetchLog = <<>>
    /\ firstDisc = [u \in {} |-> 0]
    /\ probeLog = <<>>
    /\ graph = [u \in {} |-> {}]
    /\ disk = NoFile
    /\ again = 0

PageSpec == InitPage /\ [][Next]_vars

----------------------------------------------------------------------------
(* Properties *)

FetchedUrls == { fetchLog[i].url : i \in DOMAIN fetchLog }

FailedUrls == { fetchLog[i].url : i \in { j \in DOMAIN fetchLog : ~fetchLog[j].ok } }

\* the URLs that link discovery has put on the frontier
DiscoveredUrls == DOMAIN firstDisc \ {base_url}

\* an entry with depth > max_depth has been dequeued
OverDepthDequeued == cur # <<>> /\ cur[1].depth > max_depth

\* a fetch of cur's URL has been entered and has not returned
Fetching == pc \in {"get", "parse"}

SameNetloc(u) == Lower(u.netloc) = Lower(base_url.netloc)

\* C1: within one run no URL is fetched more than once, however often it is
\* discovered or queued; a URL is in the visited set from the moment it is popped,
\* before its fetch starts, and the visited set is exactly the URLs popped for
\* processing.
C1_FetchedAtMostOnce ==
    /\ \A i, j \in DOMAIN fetchLog : fetchLog[i].url = fetchLog[j].url => i = j
    /\ Fetching => cur[1].url \in visited_urls /\ cur[1].url \notin FetchedUrls
    /\ visited_urls = FetchedUrls \cup (IF Fetching THEN {cur[1].url} ELSE {})

\* C1 witness: a URL has been fetched and another entry for it still sits in the frontier
C1_Witness ==
    \E i \in DOMAIN fetchLog : \E k \in DOMAIN queue : queue[k].url = fetchLog[i].url

\* C2: BFS level order: a URL first discovered at a smaller depth is processed
\* strictly before one first discovered at a greater depth; every URL is processed at
\* the depth of its first discovery, so depth d is finished before depth d+1 starts.
C2_LevelOrder ==
    /\ \A i, j \in DOMAIN fetchLog :
        firstDisc[fetchLog[i].url] < firstDisc[fetchLog[j].url] => i < j
    /\ \A i \in DOMAIN fetchLog : fetchLog[i].depth = firstDisc[fetchLog[i].url]
    /\ \A i, j \in DOMAIN fetchLog : i < j => fetchLog[i].depth <= fetchLog[j].depth

\* C2 witness: two pages of depth 1 and a page of depth 2 have been processed
C2_Witness ==
    \E i, j, k \in DOMAIN fetchLog :
        /\ i # j
        /\ fetchLog[i].depth = 1
        /\ fetchLog[j].depth = 1
        /\ fetchLog[k].depth = 2

\* C3: once an entry with depth > max_depth has been dequeued the crawl has stopped:
\* the loop is left, and from then on nothing is fetched and the visited set and the
\* result map do not change, whatever is still queued.
C3_DepthStopHalts ==
    /\ [](OverDepthDequeued => pc = "done")
    /\ [][OverDepthDequeued =>
            /\ visited_urls' = visited_urls
            /\ data' = data
            /\ fetchLog' = fetchLog
            /\ pc' = "done"]_vars

\* C3 witness: the crawl was stopped by the depth check with an unvisited URL still queued
C3_Witness ==
    /\ pc = "done"
    /\ OverDepthDequeued
    /\ \E k \in DOMAIN queue : queue[k].url \notin visited_urls

\* C4: with max_depth = 0 only the base URL is ever fetched: the visited set stays
\* within {base URL} and is exactly that at termination, and the result map has at
\* most one entry, keyed by the base URL.
C4_DepthZeroOnlyBase ==
    max_depth = 0 =>
        /\ visited_urls \subseteq {base_url}
        /\ FetchedUrls \subseteq {base_url}
        /\ Keys(data) \subseteq {base_url}
        /\ Len(data) <= 1
        /\ pc = "done" => visited_urls = {base_url}

\* C4 witness: a finished crawl with max_depth = 0 whose base page succeeded and
\* linked to another page of the site
C4_Witness ==
    /\ max_depth = 0
    /\ pc = "done"
    /\ Len(data) = 1
    /\ DiscoveredUrls # {}

\* C5: a URL whose fetch or parse raised has no entry in the result map, enqueues
\* nothing, stays in the visited set and is fetched only once; the crawl goes on with
\* the next frontier entry.
C5_FailureSkipsUrl ==
    /\ [](\A u \in FailedUrls :
            /\ u \notin Keys(data)
            /\ u \in visited_urls
            /\ Cardinality({ i \in DOMAIN fetchLog : fetchLog[i].url = u }) = 1)
    /\ [][(pc = "expand" /\ cur[1].url \in FailedUrls) =>
            (queue' = queue /\ pc' = "loop")]_vars

\* C5 witness: a page failed and a page fetched after it succeeded
C5_Witness ==
    \E i, j \in DOMAIN fetchLog : i < j /\ ~fetchLog[i].ok /\ fetchLog[j].ok

\* C6: a response with a non-success status is a fetch failure: parsing it stores no
\* record and returns no links.
C6_NonSuccessIsFailure ==
    [][(pc = "parse" /\ resp # <<>> /\ resp[1] # 200) =>
            (data' = data /\ ret'.page_data = <<>> /\ ret'.links = <<>>)]_vars

\* C7: every URL put on the frontier by link discovery, hence every URL fetched,
\* visited or keyed in the result map, has the base URL's network location up to
\* letter case; a link with another network location is never enqueued.
C7_DomainAdmission ==
    /\ \A u \in DiscoveredUrls : SameNetloc(u)
    /\ \A k \in DOMAIN queue : SameNetloc(queue[k].url)
    /\ \A u \in FetchedUrls \cup visited_urls \cup Keys(data) : SameNetloc(u)

\* C7 witness: a URL whose network location differs from the base's in case only has
\* been fetched, and the page just parsed links to the same host on another port
C7_Witness ==
    /\ pc = "expand"
    /\ \E i \in DOMAIN fetchLog : fetchLog[i].url.netloc # base_url.netloc
    /\ \E k \in DOMAIN ret.links : ret.links[k].netloc = <<"s", ":", "8">>

\* C8: the crawl terminates, and when it has terminated the frontier is empty or an
\* entry with depth > max_depth has been dequeued.
C8_Terminates ==
    /\ <>(pc = "done")
    /\ [](pc = "done" => (queue = <<>> \/ OverDepthDequeued))

\* C8 witness: a crawl that ended on an empty frontier after a failed fetch and two others
C8_Witness ==
    /\ pc = "done"
    /\ queue = <<>>
    /\ ~OverDepthDequeued
    /\ FailedUrls # {}
    /\ Len(fetchLog) >= 3

\* the URLs of the successful calls of scrape_page, in order
RECURSIVE Successes(_)
Successes(log) ==
    IF log = <<>> THEN <<>>
    ELSE (IF Head(log).ok THEN <<Head(log).url>> ELSE <<>>) \o Successes(Tail(log))

\* C9: the result map starts empty and only grows: stored entries are never removed,
\* replaced or moved, and its keys are the successfully processed URLs in the order
\* in which they succeeded.
C9_ResultMapGrows ==
    /\ [](pc = "init" => data = <<>>)
    /\ []([i \in DOMAIN data |-> data[i].key] = Successes(fetchLog))
    /\ [][Len(data') >= Len(data) /\ SubSeq(data', 1, Len(data)) = data]_vars

\* C9 witness: two pages stored and a failed page among the calls
C9_Witness == Len(data) >= 2 /\ FailedUrls # {}

Range(f) == { f[i] : i \in DOMAIN f }

\* C10: every record of the result map has an analysis report with the key
\* cms_platform, a non-empty list in which "Unknown" only occurs as the sole element.
C10_CmsPlatformPresent ==
    \A i \in DOMAIN data :
        /\ "analysis" \in DOMAIN data[i].value
        /\ "cms_platform" \in DOMAIN data[i].value.analysis
        /\ data[i].value.analysis.cms_platform # <<>>
        /\ "Unknown" \in Range(data[i].value.analysis.cms_platform)
              => data[i].value.analysis.cms_platform = <<"Unknown">>

\* C10 witness: two records are stored and they report the sentinel
C10_Witness ==
    /\ Len(data) = 2
    /\ \E i \in DOMAIN data : data[i].value.analysis.cms_platform = <<"Unknown">>


\* the site's pages carry none of the recognised markers
MarkerFree == web.doc.html = {} /\ web.doc.generator = {}

\* the auxiliary request is answered with status 404 and the Rails default error page
ProbeFindsRails ==
    ~web.answer.raised /\ web.answer.status = 404 /\ web.answer.rails_page

\* C11 as stated: a page with none of the recognised markers is labelled exactly
\* ["Unknown"].
C11_MarkerFreeIsUnknown ==
    \A i \in DOMAIN data :
        MarkerFree => data[i].value.analysis.cms_platform = <<"Unknown">>

\* C11 amended: a page with none of the recognised markers is labelled exactly
\* ["Unknown"], unless the auxiliary request is answered with status 404 and the
\* Rails default error page, and then it is labelled exactly ["Ruby on Rails"].
C11_MarkerFreeUnknownUnlessProbe ==
    \A i \in DOMAIN data :
        MarkerFree =>
            data[i].value.analysis.cms_platform =
                (IF ProbeFindsRails THEN <<"Ruby on Rails">> ELSE <<"Unknown">>)

\* C11 witness: a marker-free page is stored after the auxiliary request was answered
\* with the Rails error page under status 200
C11_Witness ==
    /\ MarkerFree
    /\ ~web.answer.raised /\ web.answer.status = 200 /\ web.answer.rails_page
    /\ Len(data) >= 1


\* C12: with n the number of h1 elements of a page, its report has missing_h1 = true
\* exactly if n = 0, has multiple_h1 = n exactly if n > 1, has neither key if n = 1,
\* and never has both keys.
C12_H1Keys ==
    \A i \in DOMAIN data :
        LET n == Len(web.doc.h1)
            report == data[i].value.analysis
            has_missing == "missing_h1" \in DOMAIN report
            has_multiple == "multiple_h1" \in DOMAIN report
        IN /\ (has_missing /\ report.missing_h1 = TRUE) <=> (n = 0)
           /\ (has_multiple /\ report.multiple_h1 = n) <=> (n > 1)
           /\ n = 1 => ~has_missing /\ ~has_multiple
           /\ ~(has_missing /\ has_multiple)

\* C12 witness: the report of a page with MaxH1 h1 elements is stored, and counts them
C12_Witness ==
    /\ Len(web.doc.h1) = MaxH1
    /\ \E i \in DOMAIN data :
          /\ "multiple_h1" \in DOMAIN data[i].value.analysis
          /\ data[i].value.analysis.multiple_h1 = MaxH1


\* the value the key "description" has in the meta_tags of a record, <<>> if none
DescriptionOf(record) == DictGet(record.meta_tags, Description)

\* the document holds a meta element with name "Description" and, after it, a
\* separate meta element with only the property "description"
NameThenProperty ==
    /\ Len(web.doc.metas) = 2
    /\ web.doc.metas[1].name # <<>>
    /\ web.doc.metas[2].name = <<>> /\ web.doc.metas[2].property # <<>>

\* C13 as stated: for a meta element with name "Description" followed by a separate
\* element with only the property "description", the key "description" has the
\* content of the element with the name, for every pair of contents.
C13_NameElementWins ==
    \A i \in DOMAIN data :
        NameThenProperty =>
            DescriptionOf(data[i].value) = <<web.doc.metas[1].content>>

\* C13 amended: the key "description" has the content of the later of the two
\* elements, for every pair of contents; the name takes precedence over the
\* property only inside one element that carries both.
C13_LaterElementWins ==
    \A i \in DOMAIN data :
        /\ NameThenProperty =>
              DescriptionOf(data[i].value) = <<web.doc.metas[2].content>>
        /\ Len(web.doc.metas) = 1 /\ web.doc.metas[1].name # <<>>
              => DescriptionOf(data[i].value) = <<web.doc.metas[1].content>>

\* C13 witness: the page with name "Description" / "Hi" and then property
\* "description" / "Bye" is stored
C13_Witness ==
    /\ NameThenProperty
    /\ web.doc.metas[1].content = "Hi" /\ web.doc.metas[2].content = "Bye"
    /\ Len(data) >= 1


\* the fields of the product schema
ProductFields == {"name", "url", "price", "old_price", "image_src", "image_alt"}

\* the number of records the cards of the "productos" sections give
RECURSIVE NumA(_)
NumA(items) ==
    IF items = <<>> THEN 0
    ELSE (IF Head(items).link_block # <<>> THEN 1 ELSE 0) + NumA(Tail(items))

\* the j-th record of the page comes from a card of the first grammar, or from a
\* product-grid card without a struck-through price
NoOldPrice(j) ==
    \/ j <= NumA(web.doc.cardsA)
    \/ LET card == web.doc.cardsB[j - NumA(web.doc.cardsA)]
       IN card.price_link = <<>> \/ card.price_link[1].sale = <<>>

\* C14: every record of a page's products has the fields name, url, price, old_price,
\* image_src and image_alt, and old_price is the empty string for every product of
\* the first grammar and for every product-grid product without a struck-through price.
C14_OneProductSchema ==
    \A i \in DOMAIN data :
        \A j \in DOMAIN data[i].value.products :
            LET product == data[i].value.products[j]
            IN /\ DOMAIN product = ProductFields
               /\ NoOldPrice(j) => product.old_price = <<>>


\* C15: for a product-grid card whose price link holds the current price followed by
\* a struck-through element with the old price, the record's old_price is the struck
\* text and its price is the current price, for every pair of price texts; without a
\* struck-through element, price is the full text and old_price is empty.
C15_PriceSplit ==
    \A i \in DOMAIN data :
        \A j \in DOMAIN web.doc.cardsB :
            LET card == web.doc.cardsB[j]
                product == data[i].value.products[NumA(web.doc.cardsA) + j]
            IN card.price_link # <<>> =>
                 IF card.price_link[1].sale # <<>>
                 THEN /\ product.old_price = Strip(card.price_link[1].sale[1])
                      /\ product.price = Strip(card.price_link[1].text)
                 ELSE /\ product.price = Strip(card.price_link[1].text)
                      /\ product.old_price = <<>>


\* C16: when writing the output file fails, the call does not return normally but
\* ends in an error the invoker sees, and the result map is left unchanged.
C16_WriteFailureSurfaces ==
    [][(pc = "done" /\ disk'.error) => (pc' = "raised" /\ data' = data)]_vars


\* C17: when an over-depth entry is dequeued, every entry left on the frontier is
\* over-depth too; hence a crawl that skips the entry and keeps looping only dequeues
\* over-depth entries from then on and ends with the visited set and the result map
\* that the halting crawl ends with.
C17_HaltEqualsSkip ==
    /\ [](OverDepthDequeued => \A k \in DOMAIN queue : queue[k].depth > max_depth)
    /\ [][OverDepthDequeued =>
            /\ OverDepthDequeued'
            /\ visited_urls' = visited_urls /\ data' = data /\ fetchLog' = fetchLog]_vars

\* C17 witness: the skipping crawl has passed an over-depth entry, the frontier still
\* holds entries, and pages were stored
C17_Witness ==
    /\ pc = "loop" /\ OverDepthDequeued
    /\ Len(queue) >= 2
    /\ Len(data) >= 2


\* C18 as stated: no URL is enqueued more than once, so the frontier never holds two
\* entries for the same URL.
C18_NoDuplicateEntries ==
    \A j, k \in DOMAIN queue : j # k => queue[j].url # queue[k].url

\* C18 amended: a URL that is in the visited set is never enqueued, and an entry whose
\* URL is in the visited set when it is dequeued is dropped without a fetch; the
\* frontier may hold several entries for a URL that has not been dequeued yet.
C18_VisitedNeverEnqueued ==
    /\ [][\A k \in (Len(queue) + 1)..Len(queue') : queue'[k].url \notin visited_urls]_vars
    /\ [][(pc = "loop" /\ queue # <<>> /\ Head(queue).url \in visited_urls)
            => (fetchLog' = fetchLog /\ data' = data /\ pc' \in {"loop", "done"})]_vars

\* C18 witness: the frontier holds two entries for one URL, put there by two pages,
\* and a parsed page has linked to a visited URL of the base network location
C18_Witness ==
    /\ \E j, k \in DOMAIN queue : j < k /\ queue[j].url = queue[k].url
    /\ pc = "loop"
    /\ \E k \in DOMAIN ret.links :
          ret.links[k] \in visited_urls /\ is_same_domain(ret.links[k])


\* the auxiliary request failed: it raised, or was answered with a status other than 404
ProbeFailed(answer) == answer.raised \/ answer.status # 404

\* the record stored for the URL u
RecordOf(u) == (CHOOSE e \in Range(data) : e.key = u).value

\* C19: while a page is fingerprinted the auxiliary request is made at most once, and
\* only if "Ruby on Rails" was not found in the page itself; if the request fails, the
\* report has exactly the labels found in the page (or the sentinel if there are none)
\* and the page's record is stored.
C19_ProbeOnceAndAbsorbed ==
    /\ \A i, j \in DOMAIN probeLog : i # j => probeLog[i].url # probeLog[j].url
    /\ \A i \in DOMAIN probeLog :
          /\ probeLog[i].url \in FetchedUrls
          /\ "Ruby on Rails" \notin PagePlatforms(web.doc)
          /\ ProbeFailed(probeLog[i].answer) =>
                /\ probeLog[i].url \in Keys(data)
                /\ Range(RecordOf(probeLog[i].url).analysis.cms_platform) =
                      (IF PagePlatforms(web.doc) = {} THEN {"Unknown"}
                       ELSE PagePlatforms(web.doc))

\* C19 witness: two pages with labels of their own were fingerprinted, the auxiliary
\* request of each was answered with a status other than 404, and both are stored
C19_Witness ==
    /\ Len(probeLog) = 2
    /\ PagePlatforms(web.doc) # {}
    /\ \A i \in DOMAIN probeLog :
          /\ ~probeLog[i].answer.raised /\ probeLog[i].answer.status = 200
          /\ probeLog[i].url \in Keys(data)


RECURSIVE Within(_)
\* the URLs reachable from the base URL by at most n links, where links lead out of
\* parsed pages only and to the base network location only
Within(n) ==
    IF n = 0 THEN {base_url}
    ELSE Within(n - 1)
            \cup UNION { graph[u] : u \in Within(n - 1) \cap DOMAIN graph }

\* the length of the shortest such path to u
Dist(u) == CHOOSE n \in 0..(MaxDepthArg + 1) :
              u \in Within(n) /\ \A m \in 0..(n - 1) : u \notin Within(m)

\* C20: when a crawl with max_depth >= 0 has ended, the visited set is exactly the set
\* of URLs reachable from the base URL by at most max_depth links, followed out of
\* successfully fetched pages only and to the base network location only, and each
\* of them was processed at the depth that is the length of its shortest such path.
C20_Coverage ==
    (pc = "done" /\ max_depth >= 0) =>
        /\ visited_urls = Within(max_depth)
        /\ FetchedUrls = visited_urls
        /\ \A i \in DOMAIN fetchLog : fetchLog[i].depth = Dist(fetchLog[i].url)

\* C20 witness: a crawl that follows links has ended; a page failed, two pages were
\* parsed, and a link out of the deepest level was not followed
C20_Witness ==
    /\ pc = "done" /\ max_depth >= 1
    /\ FailedUrls # {}
    /\ Cardinality(DOMAIN graph) >= 2
    /\ \E u \in DOMAIN graph : graph[u] \ visited_urls # {}


LeftOver == DOMAIN firstDisc \ visited_urls

\* C22: a call of scrape() on an instance whose crawl has completed fetches no page and
\* leaves the visited set and the result map as they are: its frontier holds the base
\* URL only and empties at once, and the URLs the first call left on its frontier are
\* never picked up.
C22_SecondCallFetchesNothing ==
    /\ [][(again' >= 1) =>
            /\ fetchLog' = fetchLog
            /\ visited_urls' = visited_urls
            /\ data' = data
            /\ LeftOver' = LeftOver]_vars
    /\ [](again >= 1 =>
            /\ pc \in {"loop", "done"}
            /\ queue \in {<<>>, <<[url |-> base_url, depth |-> 0]>>}
            /\ pc = "done" => queue = <<>>)

\* C22 witness: the second call has returned on an instance whose first call stored
\* two pages and left a URL on its frontier at the depth-stop
C22_Witness ==
    /\ again = 1 /\ pc = "done"
    /\ max_depth >= 1
    /\ Len(data) >= 2
    /\ LeftOver # {}

====
